---- MODULE Spec2Model ----
(***************************************************************************)
(* CSSFinder: the Gilbert engine (NumPyBase), the epoch generator          *)
(* (Gilbert.run), the task driver (run_gilbert / create_gilbert), the      *)
(* per-task output files and the dimension detector (ModeUtil).            *)
(*                                                                         *)
(* Numbers.  The backend computes in finite-precision floating point.      *)
(* Here a real number x is the integer Round(x * SCALE) (fixed point with  *)
(* FracBits fractional bits); every multiplication and division rounds.    *)
(* Matrices are tuples of rows.  All inputs drawn below are real, so the   *)
(* complex conjugate is the identity on their entries and the real part    *)
(* of a trace is the trace.                                                *)
(***************************************************************************)
EXTENDS Integers, Sequences, FiniteSets, TLC

\* ------------------------------------------------------------------------
\* Bounds of the model
\* ------------------------------------------------------------------------
FracBits == 10
MaxEpochs == 2
MaxIters == 2
MaxCorrectionsCap == 2
MaxTotal == 81
MaxRuns == 2
\* rounding allowance of the fixed-point arithmetic, in units of 1 / SCALE
Eps == 4

\* residual threshold of the reference implementation: 1e-7 = 1 / 10^7
ThresholdDenominator == 10000000

SCALE == 2 ^ FracBits
HALF == SCALE \div 2

\* ------------------------------------------------------------------------
\* Fixed-point arithmetic
\* ------------------------------------------------------------------------
RoundDiv(a, b) == IF b > 0 THEN (2 * a + b) \div (2 * b)
                  ELSE (2 * (0 - a) + (0 - b)) \div (2 * (0 - b))

FMul(a, b) == RoundDiv(a * b, SCALE)

FDiv(a, b) == RoundDiv(a * SCALE, b)

RECURSIVE SumTo(_, _)
SumTo(f, n) == IF n = 0 THEN 0 ELSE f[n] + SumTo(f, n - 1)

\* ------------------------------------------------------------------------
\* Kernels (cssfinder/algorithm/backend/numpy/_impl/_complex128.py)
\* ------------------------------------------------------------------------
Idx(A) == 1 .. Len(A)

\* np.dot(A, B)
dot(A, B) ==
    [i \in Idx(A) |->
        [j \in Idx(A) |->
            RoundDiv(SumTo([k \in Idx(A) |-> A[i][k] * B[k][j]], Len(A)), SCALE)]]

\* np.conj(U).T for a real matrix
conjT(U) == [i \in Idx(U) |-> [j \in Idx(U) |-> U[j][i]]]

trace(A) == SumTo([i \in Idx(A) |-> A[i][i]], Len(A))

\* np.trace(np.dot(matrix1, matrix2)).real
product(matrix1, matrix2) ==
    RoundDiv(SumTo([i \in Idx(matrix1) |->
                 SumTo([k \in Idx(matrix1) |-> matrix1[i][k] * matrix2[k][i]],
                       Len(matrix1))], Len(matrix1)), SCALE)

\* unitary . (rho2 . conj(unitary).T)
rotate(rho2, unitary) == dot(unitary, dot(rho2, conjT(unitary)))

MAdd(A, B) == [i \in Idx(A) |-> [j \in Idx(A) |-> A[i][j] + B[i][j]]]
MSub(A, B) == [i \in Idx(A) |-> [j \in Idx(A) |-> A[i][j] - B[i][j]]]
MScale(s, A) == [i \in Idx(A) |-> [j \in Idx(A) |-> FMul(s, A[i][j])]]
MDivScalar(A, s) == [i \in Idx(A) |-> [j \in Idx(A) |-> FDiv(A[i][j], s)]]

identity(n) == [i \in 1 .. n |-> [j \in 1 .. n |-> IF i = j THEN SCALE ELSE 0]]

\* ------------------------------------------------------------------------
\* Dimension detection (cssfinder/algorithm/mode_util.py)
\* ------------------------------------------------------------------------
PRIMES == <<
    2, 3, 5, 7, 11, 13, 17, 19, 23, 29, 31, 37, 41, 43, 47, 53,
    59, 61, 67, 71, 73, 79, 83, 89, 97, 101, 103, 107, 109, 113,
    127, 131, 137, 139, 149, 151, 157, 163, 167, 173, 179, 181,
    191, 193, 197, 199, 211, 223, 227, 229, 233, 239, 241, 251,
    257, 263, 269, 271, 277, 281, 283, 293, 307, 311, 313, 317,
    331, 337, 347, 349, 353, 359, 367, 373, 379, 383, 389, 397,
    401, 409, 419, 421, 431, 433, 439, 443, 449, 457, 461, 463,
    467, 479, 487, 491, 499, 503, 509, 521, 523, 541, 547, 557,
    563, 569, 571, 577, 587, 593, 599, 601, 607, 613, 617, 619,
    631, 641, 643, 647, 653, 659, 661, 673, 677, 683, 691, 701,
    709, 719, 727, 733, 739, 743, 751, 757, 761, 769, 773, 787,
    797, 809, 811, 821, 823, 827, 829, 839, 853, 857, 859, 863,
    877, 881, 883, 887, 907, 911, 919, 929, 937, 941, 947, 953,
    967, 971, 977, 983, 991, 997, 1009, 1013, 1019, 1021, 1031,
    1033, 1039, 1049, 1051, 1061, 1063, 1069, 1087, 1091, 1093,
    1097, 1103, 1109, 1117, 1123, 1129, 1151, 1153, 1163, 1171,
    1181, 1187, 1193, 1201, 1213, 1217, 1223, 1229, 1231, 1237,
    1249, 1259, 1277, 1279, 1283, 1289, 1291, 1297, 1301, 1303,
    1307, 1319, 1321, 1327, 1361, 1367, 1373, 1381, 1399, 1409,
    1423, 1427, 1429, 1433, 1439, 1447, 1451, 1453, 1459, 1471,
    1481, 1483, 1487, 1489, 1493, 1499, 1511, 1523, 1531, 1543,
    1549, 1553, 1559, 1567, 1571, 1579, 1583, 1597, 1601, 1607,
    1609, 1613, 1619, 1621, 1627, 1637, 1657, 1663, 1667, 1669,
    1693, 1697, 1699, 1709, 1721, 1723, 1733, 1741, 1747, 1753,
    1759, 1777, 1783, 1787, 1789, 1801, 1811, 1823, 1831, 1847,
    1861, 1867, 1871, 1873, 1877, 1879, 1889, 1901, 1907, 1913,
    1931, 1933, 1949, 1951, 1973, 1979, 1987, 1993, 1997, 1999>>

RECURSIVE Pow(_, _)
Pow(b, e) == IF e = 0 THEN 1 ELSE b * Pow(b, e - 1)

\* int(math.log(total, depth)): the largest q with depth^q <= total
RECURSIVE IntLogFrom(_, _, _)
IntLogFrom(total, depth, q) ==
    IF Pow(depth, q + 1) > total THEN q ELSE IntLogFrom(total, depth, q + 1)

IntLog(total, depth) == IntLogFrom(total, depth, 0)

\* int(x) applied to a value that is already an int
IntOfInt(x) == x

\* math.sqrt(total) == int(math.sqrt(total))
IsPerfectSquare(total) == \E r \in 0 .. total : r * r = total

IntSqrt(total) == CHOOSE r \in 0 .. total : r * r <= total /\ (r + 1) * (r + 1) > total

\* raise UndefinedSystemSizeError(reason), as a value
UndefinedSystemSizeError ==
    [error |-> "UndefinedSystemSizeError", depth |-> 0, quantity |-> 0]

Dimensions(depth, quantity) == [error |-> "", depth |-> depth, quantity |-> quantity]

\* FSnQdUtil.detect_depth_and_quantity: the loop over PRIMES returns at the first
\* prime whose quantity passes the test quantity == int(quantity)
\* for depth in PRIMES from position i on: return at the first depth that
\* passes the test, raise when the table is exhausted
FSnQdLoop(total, i) ==
    LET passing == {k \in i .. Len(PRIMES) :
                       IntLog(total, PRIMES[k]) = IntOfInt(IntLog(total, PRIMES[k]))}
    IN  IF passing = {} THEN UndefinedSystemSizeError
        ELSE LET first == CHOOSE k \in passing : \A m \in passing : k <= m
                 depth == PRIMES[first]
                 quantity == IntLog(total, depth)
             IN  Dimensions(depth, quantity)

FSnQdUtil_detect_depth_and_quantity(total) == FSnQdLoop(total, 1)

SBiPaLoop(total, i) ==
    LET passing == {k \in i .. Len(PRIMES) : total % PRIMES[k] = 0}
    IN  IF passing = {} THEN UndefinedSystemSizeError
        ELSE LET first == CHOOSE k \in passing : \A m \in passing : k <= m
                 depth == PRIMES[first]
             IN  Dimensions(depth, total \div depth)

\* a detector that goes to the prime table without the square-root test
SBiPaUtil_detect_primes_only(total) ==
    SBiPaLoop(total, 1)

SBiPaUtil_detect_depth_and_quantity(total) ==
    IF IsPerfectSquare(total)
    THEN Dimensions(IntSqrt(total), IntSqrt(total))
    ELSE SBiPaLoop(total, 1)

\* ModeUtil.new raises NotImplementedError for every other mode
NotImplementedError ==
    [error |-> "NotImplementedError", depth |-> 0, quantity |-> 0]

\* ModeUtil.new(mode).get_dimensions(state) for the total size len(state)
get_dimensions(mode, total) ==
    IF mode = "FSnQd" THEN FSnQdUtil_detect_depth_and_quantity(total)
    ELSE IF mode = "SBiPa" THEN SBiPaUtil_detect_depth_and_quantity(total)
    ELSE NotImplementedError

\* ------------------------------------------------------------------------
\* Inputs: target states, candidate product states, symmetries, projections
\* ------------------------------------------------------------------------
KET0 == <<<<SCALE, 0>>, <<0, 0>>>>
KET1 == <<<<0, 0>>, <<0, SCALE>>>>
KETP == <<<<HALF, HALF>>, <<HALF, HALF>>>>
KETM == <<<<HALF, 0 - HALF>>, <<0 - HALF, HALF>>>>

SWAP == <<<<0, SCALE>>, <<SCALE, 0>>>>

None == <<>>

\* rank-1 projectors |psi><psi| of real unit vectors: what the samplers return
ProductStates == {KET0, KET1, KETP, KETM}

TargetStates == {KETP, KET0}
Visibilities == {HALF}
SymmetrySets == {<<>>, <<<<SWAP>>>>}
Projections == {None, KET0}

\* ------------------------------------------------------------------------
\* Samplers and optimizers (_impl/_complex128.py), as the set of their outcomes
\* ------------------------------------------------------------------------
\* The samplers draw Haar-random unit vectors and return the projector of
\* their tensor product; the choice of the random vector is a choice among
\* the projectors of ProductStates.
\* random_d_fs(depth, quantity)
random_d_fs(depth, quantity) == ProductStates

\* random_bs(depth, quantity)
random_bs(depth, quantity) == ProductStates

\* The optimizers return new_state rotated by random local unitaries, which is
\* again the projector of a product vector; which one depends on the random
\* unitaries drawn, so every projector of ProductStates is a possible outcome.
\* optimize_d_fs
optimize_d_fs(new_state, visibility_state, depth, quantity, updates_count) ==
    ProductStates

\* optimize_bs
optimize_bs(new_state, visibility_state, depth, quantity, updates_count) ==
    ProductStates

\* ------------------------------------------------------------------------
\* Engine (cssfinder/algorithm/backend/numpy/base.py)
\* ------------------------------------------------------------------------
\* rho <- rho + sum of rotate(rho, U) over the orbit, then rho / trace(rho)
apply_orbit(rho, orbit) ==
    CHOOSE averaged \in
        {MDivScalar(summed, trace(summed)) :
            summed \in
                {[i \in Idx(rho) |-> [j \in Idx(rho) |->
                    rho[i][j] + SumTo([u \in 1 .. Len(orbit) |->
                                          rotate(rho, orbit[u])[i][j]],
                                      Len(orbit))]]}} : TRUE

RECURSIVE apply_symmetries_from(_, _, _)
apply_symmetries_from(rho, symmetries, k) ==
    IF k > Len(symmetries) THEN rho
    ELSE apply_symmetries_from(apply_orbit(rho, symmetries[k]), symmetries, k + 1)

apply_symmetries(rho, symmetries) == apply_symmetries_from(rho, symmetries, 1)

\* NumPyBase._create_visibility_matrix
create_visibility_matrix(initial, visibility) ==
    LET vis_state == MScale(visibility, initial)
        inv_vis_ident == MScale(SCALE - visibility, identity(Len(initial)))
    IN  [i \in Idx(initial) |-> [j \in Idx(initial) |->
            vis_state[i][j] + RoundDiv(inv_vis_ident[i][j], Len(initial))]]

\* NumPyBase._create_intermediate_state
create_intermediate_state(visibility_matrix) ==
    [i \in Idx(visibility_matrix) |-> [j \in Idx(visibility_matrix) |->
        IF i = j THEN visibility_matrix[i][j] ELSE 0]]

\* ------------------------------------------------------------------------
\* State
\* ------------------------------------------------------------------------
VARIABLES
    config,              \* GilbertCfg of the task: mode, state, runtime, resources
    pc,                  \* position of the driver / of the generator Gilbert.run
    dimensions,          \* Dimensions(depth, quantity) of the engine
    visibility,          \* NumPyBase._visibility (rho_v)
    intermediate,        \* NumPyBase._intermediate (rho1)
    visibility_reduced,  \* NumPyBase._visibility_reduced (R)
    aa4,                 \* NumPyBase._aa4
    aa6,                 \* NumPyBase._aa6
    dd1,                 \* NumPyBase._dd1
    corrections,         \* NumPyBase._corrections
    symmetries,          \* NumPyBase._symmetries
    projection,          \* NumPyBase._projection
    epoch_index,         \* Gilbert.run: epoch_index
    iteration_index,     \* NumPyBase.run_epoch: iteration_index
    output_directory,    \* files of task_output_directory, by name
    run_number,          \* how many times run_gilbert was started for the task
    total,               \* argument of detect_depth_and_quantity
    project,             \* the project file and the options of the run command
    driver,              \* position of the run command (cli._run, run_project)
    task_run,            \* per selected task: status and executing process
    files,               \* output files of the project: path -> tasks that wrote it
    exit_code,           \* exit code of the command, once it has exited
    returned_state,      \* array the caller got from get_state()
    returned_corrections, \* list the caller got from get_corrections()
    optimizer,           \* a call of optimize_d_fs / optimize_bs: arguments, result
    symmetries_applied,  \* the last iteration of run_epoch applied the symmetries to rho1
    generator,           \* Gilbert.run: epochs it has run and values it has yielded
    call                 \* a call of a helper function: name, arguments, result

engine == <<dimensions, visibility, intermediate, visibility_reduced, aa4, aa6,
            dd1, corrections, symmetries, projection>>

\* state of the run command and of the project's tasks
project_vars == <<project, driver, task_run, files, exit_code>>

\* state of one task's run
task_vars == <<config, pc, dimensions, visibility, intermediate, visibility_reduced,
               aa4, aa6, dd1, corrections, symmetries, projection, epoch_index,
               iteration_index, output_directory, run_number, total,
               symmetries_applied, generator>>

\* objects held by the caller of the accessors
caller_vars == <<returned_state, returned_corrections>>

vars == <<task_vars, project_vars, caller_vars, optimizer, call>>

\* an object handed to the caller: its contents, and whether it is the very
\* object the engine keeps
Returned(value, shared) == [value |-> value, shared |-> shared]

caller_idle ==
    /\ returned_state = Returned(<<>>, FALSE)
    /\ returned_corrections = Returned(<<>>, FALSE)

\* no optimizer call is observed
NoCall ==
    [fn |-> "", new_state |-> <<>>, visibility_state |-> <<>>, first |-> <<>>,
     unitaries |-> <<>>, result |-> <<>>, pc |-> "idle"]

optimizer_idle == optimizer = NoCall

\* Gilbert.run was not called yet
NoGenerator == [epochs |-> 0, yields |-> 0]

\* a call of the helper function fn with its arguments, before it ran
Call(fn, args) == [fn |-> fn, args |-> args, result |-> <<>>, pc |-> "call"]

\* no helper call is observed
call_idle == call = [fn |-> "", args |-> <<>>, result |-> <<>>, pc |-> "idle"]

\* no run command is in progress
NoProject ==
    [file |-> "", tasks |-> <<>>, force_sequential |-> FALSE,
     max_parallel |-> 0, cpu_count |-> 0]

project_idle ==
    /\ project = NoProject
    /\ driver = "idle"
    /\ task_run = <<>>
    /\ files = [path \in {} |-> {}]
    /\ exit_code = 0 - 1

EmptyDirectory == [name \in {} |-> <<>>]

STATE_FILE == "state.mtx"
CORRECTIONS_FILE == "corrections.json"

\* RuntimeCfg.max_corrections: -1 or a positive cap
MaxCorrectionsValues == {0 - 1} \cup (1 .. MaxCorrectionsCap)

Modes == {"FSnQd", "SBiPa"}

\* AlgoMode
AlgoModes == {"FSnQd", "SBiPa", "G3PaE3qD", "G4PaE3qD"}

\* State.depth and State.quantity are optional: 0 stands for None
is_predefined_dimensions(c) == c.depth # 0 /\ c.quantity # 0

Configs ==
    [mode : Modes,
     state : TargetStates,
     depth : {0},
     quantity : {0},
     visibility : Visibilities,
     max_epochs : 1 .. MaxEpochs,
     iters_per_epoch : 1 .. MaxIters,
     max_corrections : MaxCorrectionsValues,
     symmetries : SymmetrySets,
     projection : Projections]

Init ==
    /\ config \in Configs
    /\ pc = "create"
    /\ dimensions = Dimensions(0, 0)
    /\ visibility = None
    /\ intermediate = None
    /\ visibility_reduced = None
    /\ aa4 = 0
    /\ aa6 = 0
    /\ dd1 = 0
    /\ corrections = <<>>
    /\ symmetries = <<>>
    /\ projection = None
    /\ epoch_index = 0
    /\ iteration_index = 0
    /\ output_directory = EmptyDirectory
    /\ run_number = 1
    /\ symmetries_applied = FALSE
    /\ generator = NoGenerator
    /\ total = 0
    /\ project_idle
    /\ caller_idle
    /\ optimizer_idle
    /\ call_idle

\* ------------------------------------------------------------------------
\* run_gilbert: mkdir, create_gilbert (NumPyBase.__init__, set_symmetries,
\* set_projection), then the generator object of Gilbert.run is created
\* ------------------------------------------------------------------------
CreateGilbert ==
    /\ UNCHANGED <<project_vars, caller_vars, optimizer, symmetries_applied, call, generator>>
    /\ pc = "create"
    /\ \E dims \in {IF is_predefined_dimensions(config)
                    THEN Dimensions(config.depth, config.quantity)
                    ELSE get_dimensions(config.mode, Len(config.state))} :
       \E rho_v \in {create_visibility_matrix(config.state, config.visibility)} :
       \E rho_1 \in {create_intermediate_state(rho_v)} :
       \E reduced \in {MSub(rho_v, rho_1)} :
       \E with_sym \in {IF config.symmetries # <<>>
                        THEN apply_symmetries(rho_1, config.symmetries)
                        ELSE rho_1} :
       \E with_proj \in {IF config.projection # None
                         THEN rotate(with_sym, config.projection)
                         ELSE with_sym} :
           /\ total' = Len(config.state)
           /\ dimensions' = dims
           /\ IF dims.error # ""
              THEN /\ pc' = "failed"
                   /\ UNCHANGED <<visibility, intermediate, visibility_reduced,
                                  aa4, aa6, dd1, corrections, symmetries,
                                  projection>>
              ELSE /\ pc' = "start"
                   /\ visibility' = rho_v
                   /\ corrections' = <<>>
                   /\ aa4' = 2 * product(rho_v, rho_1)
                   /\ aa6' = product(rho_1, rho_1)
                   /\ visibility_reduced' = reduced
                   /\ dd1' = product(rho_1, reduced)
                   /\ symmetries' = config.symmetries
                   /\ projection' = config.projection
                   /\ intermediate' = with_proj
    /\ epoch_index' = 0
    /\ iteration_index' = 0
    /\ UNCHANGED <<config, run_number, output_directory>>

\* ------------------------------------------------------------------------
\* NumPyBase._update_state and NumPyBase.run_epoch
\* ------------------------------------------------------------------------
\* 0 <= -bb2 / (2 * bb3) <= 1; a zero bb3 gives nan or inf, which fails the test
coefficient_in_range(bb2, bb3) ==
    \/ bb3 > 0 /\ 0 <= 0 - bb2 /\ 0 - bb2 <= 2 * bb3
    \/ bb3 < 0 /\ 0 >= 0 - bb2 /\ 0 - bb2 >= 2 * bb3

\* the record with the counts taken before the increment
correction_record_zero_based(iterations, epoch, iteration, count, reduced) ==
    <<epoch * iterations + iteration, count, product(reduced, reduced)>>

\* the record appended to _corrections
correction_record(iterations, epoch, iteration, count, reduced) ==
    <<epoch * iterations + iteration + 1, count + 1, product(reduced, reduced)>>

\* symmetries and projection are applied to _intermediate before the
\* coefficient is computed; the result stays in _intermediate either way
update_state(new_state, iterations, epochs) ==
    \E alternative_state \in
          (IF config.mode = "FSnQd"
           THEN optimize_d_fs(new_state, visibility_reduced, dimensions.depth,
                              dimensions.quantity, epochs)
           ELSE optimize_bs(new_state, visibility_reduced, dimensions.depth,
                            dimensions.quantity, epochs)) :
    \E with_sym \in {IF symmetries # <<>>
                     THEN apply_symmetries(intermediate, symmetries)
                     ELSE intermediate} :
    \E rho_1 \in {IF projection # None
                  THEN rotate(with_sym, projection)
                  ELSE with_sym} :
    \E aa3 \in {product(alternative_state, alternative_state)} :
    \E aa2 \in {2 * product(visibility, alternative_state)} :
    \E aa5 \in {2 * product(rho_1, alternative_state)} :
    \E bb2 \in {(0 - aa4) + aa2 + aa5 - 2 * aa3} :
    \E bb3 \in {aa6 - aa5 + aa3} :
        IF coefficient_in_range(bb2, bb3)
        THEN \E cc1 \in {FDiv(0 - bb2, 2 * bb3)} :
             \E new_1 \in {MAdd(MScale(cc1, rho_1),
                                MScale(SCALE - cc1, alternative_state))} :
             \E reduced \in {MSub(visibility, new_1)} :
             \E new_aa4 \in {2 * product(visibility, new_1)} :
             \E new_aa6 \in {product(new_1, new_1)} :
                 /\ intermediate' = new_1
                 /\ visibility_reduced' = reduced
                 /\ aa4' = new_aa4
                 /\ aa6' = new_aa6
                 /\ dd1' = new_aa4 \div 2 - new_aa6
                 /\ corrections' = Append(corrections,
                        correction_record(iterations, epoch_index, iteration_index,
                                          Len(corrections), reduced))
        ELSE /\ intermediate' = rho_1
             /\ UNCHANGED <<visibility_reduced, aa4, aa6, dd1, corrections>>

\* one pass of the loop body of run_epoch
RunIteration ==
    /\ UNCHANGED <<project_vars, caller_vars, optimizer, call, generator>>
    /\ pc = "run_epoch"
    /\ iteration_index < config.iters_per_epoch
    /\ LET depth == dimensions.depth
           quantity == dimensions.quantity
           epochs == 20 * depth * depth * quantity
       IN  IF config.mode \in {"FSnQd", "SBiPa"}
           THEN /\ \E alternative_state \in
                       (IF config.mode = "FSnQd" THEN random_d_fs(depth, quantity)
                        ELSE random_bs(depth, quantity)) :
                      IF product(alternative_state, visibility_reduced) > dd1
                      THEN /\ update_state(alternative_state,
                                           config.iters_per_epoch, epochs)
                           /\ symmetries_applied' = (symmetries # <<>>)
                      ELSE /\ UNCHANGED <<intermediate, visibility_reduced, aa4,
                                          aa6, dd1, corrections>>
                           /\ symmetries_applied' = FALSE
                /\ iteration_index' = iteration_index + 1
                /\ pc' = pc
           \* no branch assigns alternative_state: its first use raises
           \* UnboundLocalError and the task ends
           ELSE /\ pc' = "failed"
                /\ UNCHANGED <<intermediate, visibility_reduced, aa4, aa6, dd1,
                               corrections, iteration_index, symmetries_applied>>
    /\ UNCHANGED <<config, dimensions, visibility, symmetries, projection,
                   epoch_index, output_directory, run_number, total>>

\* ------------------------------------------------------------------------
\* Gilbert.run (generator) and the loop of run_gilbert that drives it
\* ------------------------------------------------------------------------
\* the driver asks for the first value: the loop over range(max_epochs) begins
StartRun ==
    /\ UNCHANGED <<project_vars, caller_vars, optimizer, symmetries_applied, call>>
    /\ generator' = [generator EXCEPT !.epochs = @ + 1]
    /\ pc = "start"
    /\ pc' = "run_epoch"
    /\ epoch_index' = 0
    /\ iteration_index' = 0
    /\ UNCHANGED <<config, output_directory, run_number, total>>
    /\ UNCHANGED engine

\* a cap that lets the count pass max_corrections
cap_reached_strict(count, max_corrections) == count > max_corrections

\* get_corrections_count() >= max_corrections
cap_reached(count, max_corrections) == count >= max_corrections

\* a loop that tests the cap only after its last epoch
EpochEndCapAfterLastEpoch ==
    /\ UNCHANGED <<project_vars, caller_vars, optimizer, symmetries_applied, call>>
    /\ generator' = [generator EXCEPT !.yields = @ + 1]
    /\ pc = "run_epoch"
    /\ iteration_index = config.iters_per_epoch
    /\ pc' = IF /\ cap_reached(Len(corrections), config.max_corrections)
                /\ epoch_index + 1 = config.max_epochs
             THEN "yield_final"
             ELSE "yield_loop"
    /\ UNCHANGED <<config, epoch_index, iteration_index, output_directory,
                   run_number, total>>
    /\ UNCHANGED engine

\* run_epoch has returned: either break (and fall to the last yield) or yield
EpochEnd ==
    /\ UNCHANGED <<project_vars, caller_vars, optimizer, symmetries_applied, call>>
    /\ generator' = [generator EXCEPT !.yields = @ + 1]
    /\ pc = "run_epoch"
    /\ iteration_index = config.iters_per_epoch
    /\ pc' = IF cap_reached(Len(corrections), config.max_corrections)
             THEN "yield_final"
             ELSE "yield_loop"
    /\ UNCHANGED <<config, epoch_index, iteration_index, output_directory,
                   run_number, total>>
    /\ UNCHANGED engine

write_file(directory, name, content) ==
    [n \in (DOMAIN directory) \cup {name} |->
        IF n = name THEN content ELSE directory[n]]

\* an accessor that hands out the array the engine keeps
get_state_view == Returned(intermediate, TRUE)

\* get_state(): a copy of _intermediate
get_state == Returned(intermediate, FALSE)

\* get_corrections(): a copy of _corrections
get_corrections == Returned(corrections, FALSE)

\* a loop body that leaves the corrections file as it was
flush_state_only(directory) ==
    IF Len(corrections) # 0
    THEN write_file(directory, STATE_FILE, get_state.value)
    ELSE directory

\* body of the for-loop of run_gilbert for one yielded epoch index
flush(directory) ==
    IF Len(corrections) # 0
    THEN write_file(write_file(directory, STATE_FILE, get_state.value),
                    CORRECTIONS_FILE, get_corrections.value)
    ELSE directory

DriverBody ==
    /\ UNCHANGED <<project_vars, optimizer, symmetries_applied, call, generator>>
    /\ pc \in {"yield_loop", "yield_final"}
    /\ IF Len(corrections) # 0
       THEN /\ returned_corrections' = get_corrections
            /\ returned_state' = get_state
       ELSE UNCHANGED caller_vars
    /\ output_directory' = flush(output_directory)
    /\ pc' = IF pc = "yield_loop" THEN "next_loop" ELSE "next_final"
    /\ UNCHANGED <<config, epoch_index, iteration_index, run_number, total>>
    /\ UNCHANGED engine

\* a generator that returns when the range is exhausted, without a last yield
ResumeLoopWithoutLastYield ==
    /\ UNCHANGED <<project_vars, caller_vars, optimizer, symmetries_applied, call>>
    /\ generator' = IF epoch_index + 1 < config.max_epochs
                    THEN [generator EXCEPT !.epochs = @ + 1]
                    ELSE generator
    /\ pc = "next_loop"
    /\ IF epoch_index + 1 < config.max_epochs
       THEN /\ epoch_index' = epoch_index + 1
            /\ iteration_index' = 0
            /\ pc' = "run_epoch"
       ELSE /\ pc' = "done"
            /\ UNCHANGED <<epoch_index, iteration_index>>
    /\ UNCHANGED <<config, output_directory, run_number, total>>
    /\ UNCHANGED engine

\* the driver asks for the next value after a yield inside the loop
ResumeLoop ==
    /\ UNCHANGED <<project_vars, caller_vars, optimizer, symmetries_applied, call>>
    /\ generator' = IF epoch_index + 1 < config.max_epochs
                    THEN [generator EXCEPT !.epochs = @ + 1]
                    ELSE [generator EXCEPT !.yields = @ + 1]
    /\ pc = "next_loop"
    /\ IF epoch_index + 1 < config.max_epochs
       THEN /\ epoch_index' = epoch_index + 1
            /\ iteration_index' = 0
            /\ pc' = "run_epoch"
       ELSE /\ pc' = "yield_final"
            /\ UNCHANGED <<epoch_index, iteration_index>>
    /\ UNCHANGED <<config, output_directory, run_number, total>>
    /\ UNCHANGED engine

\* the driver asks for the next value after the last yield: the generator returns
ResumeFinal ==
    /\ UNCHANGED <<project_vars, caller_vars, optimizer, symmetries_applied, call, generator>>
    /\ pc = "next_final"
    /\ pc' = "done"
    /\ UNCHANGED <<config, epoch_index, iteration_index, output_directory,
                   run_number, total>>
    /\ UNCHANGED engine

Next ==
    \/ CreateGilbert
    \/ StartRun
    \/ RunIteration
    \/ EpochEnd
    \/ DriverBody
    \/ ResumeLoop
    \/ ResumeFinal

Spec == Init /\ [][Next]_vars

FairSpec == Spec /\ WF_vars(Next)

\* ------------------------------------------------------------------------
\* A further run of the same task: run_task calls run_gilbert again, the
\* files of the earlier run are still in the task's output directory
\* ------------------------------------------------------------------------
Restart ==
    /\ UNCHANGED <<project_vars, optimizer, symmetries_applied, call>>
    /\ generator' = NoGenerator
    /\ returned_state' = Returned(<<>>, FALSE)
    /\ returned_corrections' = Returned(<<>>, FALSE)
    /\ pc = "done"
    /\ run_number < MaxRuns
    /\ run_number' = run_number + 1
    /\ pc' = "create"
    /\ dimensions' = Dimensions(0, 0)
    /\ visibility' = None
    /\ intermediate' = None
    /\ visibility_reduced' = None
    /\ aa4' = 0
    /\ aa6' = 0
    /\ dd1' = 0
    /\ corrections' = <<>>
    /\ symmetries' = <<>>
    /\ projection' = None
    /\ epoch_index' = 0
    /\ iteration_index' = 0
    /\ UNCHANGED <<config, output_directory, total>>

\* tasks without symmetries and projection
PlainConfigs == {c \in Configs : c.symmetries = <<>> /\ c.projection = None}

InitResume == Init /\ config \in PlainConfigs

NextResume == Next \/ Restart

SpecResume == InitResume /\ [][NextResume]_vars

\* ------------------------------------------------------------------------
\* The dimension detector on its own: ModeUtil.new(mode).get_dimensions(state)
\* for a state of any total size
\* ------------------------------------------------------------------------
InitDetect ==
    /\ config \in [mode : Modes, state : {KETP}, depth : {0}, quantity : {0},
                   visibility : {SCALE},
                   max_epochs : {1}, iters_per_epoch : {1},
                   max_corrections : {1}, symmetries : {<<>>},
                   projection : {None}]
    /\ total \in 1 .. MaxTotal
    /\ pc = "detect"
    /\ dimensions = Dimensions(0, 0)
    /\ visibility = None
    /\ intermediate = None
    /\ visibility_reduced = None
    /\ aa4 = 0
    /\ aa6 = 0
    /\ dd1 = 0
    /\ corrections = <<>>
    /\ symmetries = <<>>
    /\ projection = None
    /\ epoch_index = 0
    /\ iteration_index = 0
    /\ output_directory = EmptyDirectory
    /\ run_number = 1
    /\ symmetries_applied = FALSE
    /\ generator = NoGenerator
    /\ project_idle
    /\ caller_idle
    /\ optimizer_idle
    /\ call_idle

DetectDimensions ==
    /\ UNCHANGED <<project_vars, caller_vars, optimizer, symmetries_applied, call, generator>>
    /\ pc = "detect"
    /\ dimensions' = get_dimensions(config.mode, total)
    /\ pc' = "detected"
    /\ UNCHANGED <<config, visibility, intermediate, visibility_reduced, aa4, aa6,
                   dd1, corrections, symmetries, projection, epoch_index,
                   iteration_index, output_directory, run_number, total>>

SpecDetect == InitDetect /\ [][DetectDimensions]_vars

\* ------------------------------------------------------------------------
\* Tasks of every AlgoMode, with and without dimensions given in the project
\* ------------------------------------------------------------------------
ModeConfigs ==
    [mode : AlgoModes,
     state : {KETP},
     depth : {0, 2},
     quantity : {0, 1},
     visibility : Visibilities,
     max_epochs : 1 .. MaxEpochs,
     iters_per_epoch : 1 .. MaxIters,
     max_corrections : MaxCorrectionsValues,
     symmetries : {<<>>},
     projection : {None}]

InitModes ==
    /\ config \in ModeConfigs
    /\ pc = "create"
    /\ dimensions = Dimensions(0, 0)
    /\ visibility = None
    /\ intermediate = None
    /\ visibility_reduced = None
    /\ aa4 = 0
    /\ aa6 = 0
    /\ dd1 = 0
    /\ corrections = <<>>
    /\ symmetries = <<>>
    /\ projection = None
    /\ epoch_index = 0
    /\ iteration_index = 0
    /\ output_directory = EmptyDirectory
    /\ run_number = 1
    /\ symmetries_applied = FALSE
    /\ generator = NoGenerator
    /\ total = 0
    /\ project_idle
    /\ caller_idle
    /\ optimizer_idle
    /\ call_idle

SpecModes == InitModes /\ [][Next]_vars

\* ------------------------------------------------------------------------
\* A caller that writes into the objects the accessors returned
\* ------------------------------------------------------------------------
\* the generator is suspended or finished and the caller's code runs
caller_runs == pc \in {"next_loop", "next_final", "done"}

\* the caller overwrites the contents of the array it got from get_state()
MutateState ==
    /\ UNCHANGED <<project_vars, optimizer, symmetries_applied, call, generator>>
    /\ caller_runs
    /\ returned_state.value # None
    /\ \E contents \in ProductStates \ {returned_state.value} :
        /\ returned_state' = [returned_state EXCEPT !.value = contents]
        /\ IF returned_state.shared
           THEN intermediate' = contents
           ELSE UNCHANGED intermediate
    /\ UNCHANGED <<config, pc, dimensions, visibility, visibility_reduced, aa4,
                   aa6, dd1, corrections, symmetries, projection, epoch_index,
                   iteration_index, output_directory, run_number, total,
                   returned_corrections>>

\* the caller removes entries of the list it got from get_corrections():
\* pop(0) or clear()
MutateCorrections ==
    /\ UNCHANGED <<project_vars, optimizer, symmetries_applied, call, generator>>
    /\ caller_runs
    /\ Len(returned_corrections.value) > 0
    /\ \E contents \in {Tail(returned_corrections.value), <<>>} :
        /\ returned_corrections' = [returned_corrections EXCEPT !.value = contents]
        /\ IF returned_corrections.shared
           THEN corrections' = contents
           ELSE UNCHANGED corrections
    /\ UNCHANGED <<config, pc, dimensions, visibility, intermediate,
                   visibility_reduced, aa4, aa6, dd1, symmetries, projection,
                   epoch_index, iteration_index, output_directory, run_number,
                   total, returned_state>>

InitAccessors == Init /\ config \in PlainConfigs /\ config.state = KETP

NextAccessors == Next \/ MutateState \/ MutateCorrections

SpecAccessors == InitAccessors /\ [][NextAccessors]_vars

\* ------------------------------------------------------------------------
\* The mode optimizers, iteration by iteration, for given random draws
\* ------------------------------------------------------------------------
MaxUpdates == 2
MaxWhile == 4

\* rotation of the plane by 45 degrees
ROT45 ==
    LET c == RoundDiv(SCALE * 7071, 10000)
    IN  <<<<c, 0 - c>>, <<c, c>>>>

\* VALUE * projector + identity with VALUE = e^(i phi) - 1, taken at the
\* phase phi = pi where the unitary is real
phase_unitary(projector) ==
    MSub(identity(Len(projector)), MScale(2 * SCALE, projector))

\* unitaries that a draw of random_unitary_d_fs / random_unitary_bs /
\* random_unitary_bs_reverse stands for
Unitaries == {phase_unitary(KET0), phase_unitary(KETP), ROT45}

\* the while loop of optimize_d_fs
RECURSIVE d_fs_while(_, _, _, _, _, _)
d_fs_while(product_2_3, rotated_2, product_rot2_3, unitary, visibility_state, fuel) ==
    IF product_rot2_3 > product_2_3 /\ fuel > 0
    THEN LET rotated == rotate(rotated_2, unitary)
         IN  d_fs_while(product_rot2_3, rotated, product(rotated, visibility_state),
                        unitary, visibility_state, fuel - 1)
    ELSE [best |-> product_2_3, state |-> rotated_2]

\* the for loop of optimize_d_fs from iteration idx on; the overlap of the
\* trial is not computed again after the adjoint was taken
RECURSIVE d_fs_for(_, _, _, _, _, _)
d_fs_for(new_state, visibility_state, unitaries, idx, product_2_3, rotated_2) ==
    IF idx > Len(unitaries)
    THEN [best |-> product_2_3, state |-> rotated_2]
    ELSE LET trial == rotate(new_state, unitaries[idx])
             product_rot2_3 == product(trial, visibility_state)
             worse == product_2_3 > product_rot2_3
             unitary == IF worse THEN conjT(unitaries[idx]) ELSE unitaries[idx]
             start == IF worse THEN rotate(new_state, unitary) ELSE trial
             after == d_fs_while(product_2_3, start, product_rot2_3, unitary,
                                 visibility_state, MaxWhile)
         IN  d_fs_for(new_state, visibility_state, unitaries, idx + 1,
                      after.best, after.state)

\* optimize_d_fs for the draws: first before the loop, unitaries[idx] in
\* iteration idx, updates_count = Len(unitaries)
optimize_d_fs_with(new_state, visibility_state, first, unitaries) ==
    d_fs_for(new_state, visibility_state, unitaries, 1,
             product(new_state, visibility_state),
             rotate(new_state, first)).state

\* the while loop of optimize_bs
RECURSIVE bs_while(_, _, _, _, _, _)
bs_while(pp1, return_state, pp2, unitary, visibility_state, fuel) ==
    IF pp2 > pp1 /\ fuel > 0
    THEN LET rotated == rotate(return_state, unitary)
         IN  bs_while(pp2, rotated, product(rotated, visibility_state),
                      unitary, visibility_state, fuel - 1)
    ELSE [best |-> pp1, state |-> return_state]

\* the for loop of optimize_bs from iteration index on
RECURSIVE bs_for(_, _, _, _, _, _)
bs_for(new_state, visibility_state, unitaries, index, pp1, return_state) ==
    IF index > Len(unitaries)
    THEN [best |-> pp1, state |-> return_state]
    ELSE LET trial == rotate(new_state, unitaries[index])
             worse == pp1 > product(trial, visibility_state)
             unitary == IF worse THEN conjT(unitaries[index]) ELSE unitaries[index]
             start == IF worse THEN rotate(new_state, unitary) ELSE trial
             after == bs_while(pp1, start, product(start, visibility_state),
                               unitary, visibility_state, MaxWhile)
         IN  bs_for(new_state, visibility_state, unitaries, index + 1,
                    after.best, after.state)

\* optimize_bs for the draws unitaries[index], updates_count = Len(unitaries)
optimize_bs_with(new_state, visibility_state, unitaries) ==
    bs_for(new_state, visibility_state, unitaries, 1,
           product(new_state, visibility_state), new_state).state

\* residuals rho_v - rho1 handed to the optimizer as visibility_state
ResidualStates == {MSub(t, r) : t \in TargetStates, r \in ProductStates}

DrawSequences == UNION {[1 .. n -> Unitaries] : n \in 1 .. MaxUpdates}

OptimizerCalls ==
    [fn : {"optimize_d_fs", "optimize_bs"},
     new_state : ProductStates,
     visibility_state : ResidualStates,
     first : Unitaries,
     unitaries : DrawSequences,
     result : {None},
     pc : {"call"}]

InitOptimize ==
    /\ config \in {c \in PlainConfigs : c.mode = "FSnQd" /\ c.state = KETP
                      /\ c.max_epochs = 1 /\ c.iters_per_epoch = 1
                      /\ c.max_corrections = 1 /\ c.visibility = HALF}
    /\ pc = "optimize"
    /\ dimensions = Dimensions(2, 1)
    /\ visibility = None
    /\ intermediate = None
    /\ visibility_reduced = None
    /\ aa4 = 0
    /\ aa6 = 0
    /\ dd1 = 0
    /\ corrections = <<>>
    /\ symmetries = <<>>
    /\ projection = None
    /\ epoch_index = 0
    /\ iteration_index = 0
    /\ output_directory = EmptyDirectory
    /\ run_number = 1
    /\ symmetries_applied = FALSE
    /\ generator = NoGenerator
    /\ total = 0
    /\ project_idle
    /\ caller_idle
    /\ optimizer \in {c \in OptimizerCalls :
                         c.fn = "optimize_bs" => c.first = ROT45}
    /\ call_idle

CallOptimizeDFS ==
    /\ optimizer.pc = "call"
    /\ optimizer.fn = "optimize_d_fs"
    /\ optimizer' =
          [optimizer EXCEPT
              !.result = optimize_d_fs_with(optimizer.new_state,
                             optimizer.visibility_state, optimizer.first,
                             optimizer.unitaries),
              !.pc = "returned"]
    /\ UNCHANGED <<task_vars, project_vars, caller_vars, call>>

CallOptimizeBS ==
    /\ optimizer.pc = "call"
    /\ optimizer.fn = "optimize_bs"
    /\ optimizer' =
          [optimizer EXCEPT
              !.result = optimize_bs_with(optimizer.new_state,
                             optimizer.visibility_state, optimizer.unitaries),
              !.pc = "returned"]
    /\ UNCHANGED <<task_vars, project_vars, caller_vars, call>>

NextOptimize == CallOptimizeDFS \/ CallOptimizeBS

SpecOptimize == InitOptimize /\ [][NextOptimize]_vars

\* ------------------------------------------------------------------------
\* The project: task names, output paths, and the run and report commands
\* ------------------------------------------------------------------------
MaxTasks == 2
MaxParallel == 2
MaxCpus == 2
MaxReportTypes == 1

\* exit codes of the commands
PROJECT_NOT_FOUND == 300000
MALFORMED_PROJECT_FILE == 301000
INVALID_PROJECT_CONTENT == 302000
SAVE_STATE_HOOK == 303000
SAVE_CORRECTIONS_HOOK == 304000
AMBIGUOUS_TASK_KEY == 30400
\* exit status of the interpreter when an exception leaves the command
UNCAUGHT_EXCEPTION == 1

\* a path component that the path parser keeps
kept_part(current) == IF current \in {"", "."} THEN <<>> ELSE <<current>>

\* components of a path given as text: split at "/", empty and "." components
\* dropped (the parsing that Path applies to the right operand of "/")
RECURSIVE path_parts(_, _, _)
path_parts(name, k, current) ==
    IF k > Len(name)
    THEN kept_part(current)
    ELSE IF name[k] = "/"
         THEN kept_part(current) \o path_parts(name, k + 1, "")
         ELSE path_parts(name, k + 1, current \o name[k])

is_absolute(name) == Len(name) > 0 /\ name[1] = "/"

\* base / name: an absolute right operand replaces the base
truediv(base, name) ==
    IF is_absolute(name)
    THEN <<"/">> \o path_parts(name, 1, "")
    ELSE base \o path_parts(name, 1, "")

project_output_directory == <<"/", "project", "output">>

task_output_directory(task_name) == truediv(project_output_directory, task_name)

output_state_file(task_name) ==
    Append(task_output_directory(task_name), STATE_FILE)

output_corrections_file(task_name) ==
    Append(task_output_directory(task_name), CORRECTIONS_FILE)

\* keys of the "tasks" dictionary of cssfproject.json, as text
TaskNames == {<<"a">>, <<"a", "/">>, <<"b">>}

\* size of the initial state of every task of the project
TASK_TOTAL == 2

TaskEntries == [name : TaskNames, mode : {"FSnQd", "G3PaE3qD"}]

\* a dictionary has no two equal keys
TaskLists ==
    {ts \in UNION {[1 .. n -> TaskEntries] : n \in 1 .. MaxTasks} :
        \A i, j \in DOMAIN ts : i # j => ts[i].name # ts[j].name}

FileStatuses == {"ok", "missing", "malformed", "invalid"}

ANY == <<"*">>

RunProjects ==
    [command : {"run"},
     file : FileStatuses,
     tasks : TaskLists,
     force_sequential : BOOLEAN,
     max_parallel : (0 - 1) .. MaxParallel,
     cpu_count : 1 .. MaxCpus,
     pattern : {ANY},
     report_types : {0}]

ReportProjects ==
    [command : {"report"},
     file : FileStatuses,
     tasks : TaskLists,
     force_sequential : {FALSE},
     max_parallel : {0 - 1},
     cpu_count : {1},
     pattern : {ANY} \cup TaskNames,
     report_types : 0 .. MaxReportTypes]

\* create_gilbert raises for the task: no ModeUtil for the mode, or no
\* dimensions for the size of the state
task_raises(task) == get_dimensions(task.mode, TASK_TOTAL).error # ""

\* exception raised by CSSFProject.load_project, "" when the project loads
load_error(p) ==
    IF p.file = "missing" THEN "ProjectFileNotFoundError"
    ELSE IF p.file = "malformed" THEN "MalformedProjectFileError"
    ELSE IF p.file = "invalid" THEN "InvalidCSSFProjectContentError"
    ELSE ""

\* select_tasks(None): every task of the project
select_tasks_all(p) == DOMAIN p.tasks

\* fnmatch.filter(keys, pattern) for a literal pattern or "*"
fnmatch_filter(p, pattern) ==
    {i \in DOMAIN p.tasks : pattern = ANY \/ p.tasks[i].name = pattern}

pending_tasks(p) ==
    [i \in select_tasks_all(p) |-> [status |-> "pending", process |-> "none"]]

InitProject ==
    /\ config \in {c \in PlainConfigs : c.mode = "FSnQd" /\ c.state = KETP
                      /\ c.max_epochs = 1 /\ c.iters_per_epoch = 1
                      /\ c.max_corrections = 1 /\ c.visibility = HALF}
    /\ pc = "project"
    /\ dimensions = Dimensions(0, 0)
    /\ visibility = None
    /\ intermediate = None
    /\ visibility_reduced = None
    /\ aa4 = 0
    /\ aa6 = 0
    /\ dd1 = 0
    /\ corrections = <<>>
    /\ symmetries = <<>>
    /\ projection = None
    /\ epoch_index = 0
    /\ iteration_index = 0
    /\ output_directory = EmptyDirectory
    /\ run_number = 1
    /\ symmetries_applied = FALSE
    /\ generator = NoGenerator
    /\ total = 0
    /\ project \in RunProjects \cup ReportProjects
    /\ driver = project.command
    /\ task_run = <<>>
    /\ files = [path \in {} |-> {}]
    /\ exit_code = 0 - 1
    /\ caller_idle
    /\ optimizer_idle
    /\ call_idle

ErrorFamilies ==
    {"ProjectFileNotFoundError", "MalformedProjectFileError",
     "InvalidCSSFProjectContentError", "SaveStateHookError",
     "SaveCorrectionsHookError", "AmbiguousTaskKeyError"}

\* exit code of a command when an exception of the family leaves its API
\* call: the except clauses of cli._run and of cli._task_report
family_exit_code(command, family) ==
    IF command = "run"
    THEN IF family = "ProjectFileNotFoundError" THEN PROJECT_NOT_FOUND
         ELSE IF family = "MalformedProjectFileError" THEN MALFORMED_PROJECT_FILE
         ELSE IF family = "InvalidCSSFProjectContentError" THEN INVALID_PROJECT_CONTENT
         ELSE IF family = "SaveStateHookError" THEN SAVE_STATE_HOOK
         ELSE IF family = "SaveCorrectionsHookError" THEN SAVE_CORRECTIONS_HOOK
         ELSE UNCAUGHT_EXCEPTION
    ELSE IF family = "AmbiguousTaskKeyError" THEN AMBIGUOUS_TASK_KEY
         ELSE UNCAUGHT_EXCEPTION

\* cli._run up to the call of run_project: load the project; a load error
\* ends the command with the code of its family
LoadProject ==
    /\ UNCHANGED <<task_vars, caller_vars, optimizer, call>>
    /\ driver = "run"
    /\ \E err \in {load_error(project)} :
        IF err # ""
        THEN /\ driver' = "exited"
             /\ exit_code' = family_exit_code("run", err)
             /\ UNCHANGED task_run
        ELSE /\ task_run' = pending_tasks(project)
             /\ driver' = IF project.force_sequential THEN "sequential" ELSE "pool"
             /\ UNCHANGED exit_code
    /\ UNCHANGED <<project, files>>

running(i) == task_run[i].status = "running"
ended(i) == task_run[i].status \in {"done", "failed"}
running_count == Cardinality({i \in DOMAIN task_run : running(i)})

set_task(i, status, process) ==
    [task_run EXCEPT ![i] = [status |-> status, process |-> process]]

\* map(run_task, task_list, ...) in the main process: the next task is
\* called when the previous call has returned
SequentialStart ==
    /\ UNCHANGED <<task_vars, caller_vars, optimizer, call>>
    /\ driver = "sequential"
    /\ \E i \in DOMAIN task_run :
        /\ task_run[i].status = "pending"
        /\ \A j \in DOMAIN task_run : j < i => task_run[j].status = "done"
        /\ task_run' = set_task(i, "running", "main")
    /\ UNCHANGED <<project, driver, files, exit_code>>

\* run_task returns or raises in the main process; an exception leaves
\* run_project and cli._run, the return of the last task ends the command
SequentialEnd ==
    /\ UNCHANGED <<task_vars, caller_vars, optimizer, call>>
    /\ driver = "sequential"
    /\ \E i \in DOMAIN task_run :
        /\ running(i)
        /\ IF task_raises(project.tasks[i])
           THEN /\ task_run' = set_task(i, "failed", "main")
                /\ driver' = "exited"
                /\ exit_code' = UNCAUGHT_EXCEPTION
           ELSE /\ task_run' = set_task(i, "done", "main")
                /\ IF i = Len(project.tasks)
                   THEN driver' = "exited" /\ exit_code' = 0
                   ELSE UNCHANGED <<driver, exit_code>>
    /\ UNCHANGED <<project, files>>

\* ProcessPoolExecutor(max_workers): None stands for the number of processors
max_workers_cpu_count(p) == p.cpu_count

max_workers(p) == IF p.max_parallel > 0 THEN p.max_parallel ELSE p.cpu_count

\* executor.map submits every task; the results are never read
PoolSubmit ==
    /\ UNCHANGED <<task_vars, caller_vars, optimizer, call>>
    /\ driver = "pool"
    /\ task_run' = [i \in DOMAIN task_run |->
                        [status |-> "queued", process |-> "none"]]
    /\ driver' = "shutdown"
    /\ UNCHANGED <<project, files, exit_code>>

\* an idle worker process takes the oldest queued task
WorkerStart ==
    /\ UNCHANGED <<task_vars, caller_vars, optimizer, call>>
    /\ driver = "shutdown"
    /\ running_count < max_workers(project)
    /\ \E i \in DOMAIN task_run :
        /\ task_run[i].status = "queued"
        /\ \A j \in DOMAIN task_run : j < i => task_run[j].status # "queued"
        /\ task_run' = set_task(i, "running", "worker")
    /\ UNCHANGED <<project, driver, files, exit_code>>

\* run_task returns or raises in a worker; the exception is kept in the
\* future of the task
WorkerEnd ==
    /\ UNCHANGED <<task_vars, caller_vars, optimizer, call>>
    /\ driver = "shutdown"
    /\ \E i \in DOMAIN task_run :
        /\ running(i)
        /\ task_run' = set_task(i, IF task_raises(project.tasks[i])
                                   THEN "failed" ELSE "done", "worker")
    /\ UNCHANGED <<project, driver, files, exit_code>>

\* leaving the with-block waits for every task; cli._run then exits with 0
PoolShutdown ==
    /\ UNCHANGED <<task_vars, caller_vars, optimizer, call>>
    /\ driver = "shutdown"
    /\ \A i \in DOMAIN task_run : ended(i)
    /\ driver' = "exited"
    /\ exit_code' = 0
    /\ UNCHANGED <<project, task_run, files>>

written(fs, path, i) ==
    [q \in (DOMAIN fs) \cup {path} |->
        IF q = path
        THEN (IF q \in DOMAIN fs THEN fs[q] ELSE {}) \cup {i}
        ELSE fs[q]]

\* run_gilbert of a running task dumps its state and its corrections
TaskDump ==
    /\ UNCHANGED <<task_vars, caller_vars, optimizer, call>>
    /\ \E i \in DOMAIN task_run :
        /\ running(i)
        /\ ~task_raises(project.tasks[i])
        /\ \E name \in {project.tasks[i].name} :
            files' = written(written(files, output_state_file(name), i),
                             output_corrections_file(name), i)
        /\ files' # files
    /\ UNCHANGED <<project, driver, task_run, exit_code>>

\* cli._task_report: no report type selected, or load the project, select
\* the task by pattern and save the reports
TaskReport ==
    /\ UNCHANGED <<task_vars, caller_vars, optimizer, call>>
    /\ driver = "report"
    /\ driver' = "exited"
    /\ \E err \in {load_error(project)},
          tasks \in {fnmatch_filter(project, project.pattern)} :
        exit_code' =
            IF project.report_types = 0 THEN 0
            ELSE IF err # "" THEN family_exit_code("report", err)
            ELSE IF Cardinality(tasks) > 1
                 THEN family_exit_code("report", "AmbiguousTaskKeyError")
            ELSE IF Cardinality(tasks) = 0 THEN UNCAUGHT_EXCEPTION
            ELSE 0
    /\ UNCHANGED <<project, task_run, files>>

NextProject ==
    \/ LoadProject
    \/ SequentialStart
    \/ SequentialEnd
    \/ PoolSubmit
    \/ WorkerStart
    \/ WorkerEnd
    \/ PoolShutdown
    \/ TaskDump
    \/ TaskReport

SpecProject == InitProject /\ [][NextProject]_vars

\* ------------------------------------------------------------------------
\* Helper functions called on their own: the sampler random_d_fs
\* ------------------------------------------------------------------------
MaxQuantity == 3

\* the state in which only one helper call, drawn from calls, is observed
InitCall(calls) ==
    /\ config \in {c \in PlainConfigs : c.mode = "FSnQd" /\ c.state = KETP
                      /\ c.max_epochs = 1 /\ c.iters_per_epoch = 1
                      /\ c.max_corrections = 1 /\ c.visibility = HALF}
    /\ pc = "helper"
    /\ dimensions = Dimensions(0, 0)
    /\ visibility = None
    /\ intermediate = None
    /\ visibility_reduced = None
    /\ aa4 = 0
    /\ aa6 = 0
    /\ dd1 = 0
    /\ corrections = <<>>
    /\ symmetries = <<>>
    /\ projection = None
    /\ epoch_index = 0
    /\ iteration_index = 0
    /\ output_directory = EmptyDirectory
    /\ run_number = 1
    /\ symmetries_applied = FALSE
    /\ generator = NoGenerator
    /\ total = 0
    /\ project_idle
    /\ caller_idle
    /\ optimizer_idle
    /\ call \in calls

\* the helper call returns result
Return(result) ==
    /\ call' = [call EXCEPT !.result = result, !.pc = "returned"]
    /\ UNCHANGED <<task_vars, project_vars, caller_vars, optimizer>>

\* np.sqrt(x) for x >= 0, rounded down
FSqrt(x) == CHOOSE r \in 0 .. (2 * SCALE) :
                r * r <= x * SCALE /\ (r + 1) * (r + 1) > x * SCALE

\* np.dot(v, np.conj(v)) of a real vector
vdot(v, w) == RoundDiv(SumTo([i \in 1 .. Len(v) |-> v[i] * w[i]], Len(v)), SCALE)

\* normalize(mtx) == mtx / sqrt(real(dot(mtx, conj(mtx))))
normalize(mtx) ==
    LET val == FSqrt(vdot(mtx, mtx))
    IN  [i \in 1 .. Len(mtx) |-> FDiv(mtx[i], val)]

\* np.outer(vector, idx_vector).flatten()
outer_flatten(vector, idx_vector) ==
    [k \in 1 .. Len(vector) * Len(idx_vector) |->
        FMul(vector[((k - 1) \div Len(idx_vector)) + 1],
             idx_vector[((k - 1) % Len(idx_vector)) + 1])]

\* project(mtx1) == np.outer(mtx1, np.conj(mtx1))
projector(mtx1) ==
    [i \in 1 .. Len(mtx1) |-> [j \in 1 .. Len(mtx1) |-> FMul(mtx1[i], mtx1[j])]]

\* the loop of random_d_fs from pass i on (i counts from 0 as in the source;
\* rand_vectors[i] of the source is rand_vectors[i + 1] here)
RECURSIVE random_d_fs_loop(_, _, _, _)
random_d_fs_loop(rand_vectors, quantity, i, vector) ==
    IF i >= quantity - 1
    THEN vector
    ELSE LET idx_vector == normalize(rand_vectors[i + 1])
         IN  random_d_fs_loop(rand_vectors, quantity, i + 1,
                              outer_flatten(vector, idx_vector))

\* random_d_fs(depth, quantity) for the rows rand_vectors that
\* get_random_haar_2d(depth, quantity) returned
random_d_fs_with(rand_vectors, quantity) ==
    projector(random_d_fs_loop(rand_vectors, quantity, 0, normalize(rand_vectors[1])))

\* rows that get_random_haar_2d draws, for depth 2
HaarVectors == {<<SCALE, 0>>, <<0, SCALE>>, <<SCALE, SCALE>>, <<SCALE, 0 - SCALE>>}

SamplerCalls ==
    {Call("random_d_fs", [depth |-> 2, quantity |-> n, rand_vectors |-> rows]) :
        <<n, rows>> \in UNION {{n} \X [1 .. n -> HaarVectors] : n \in 1 .. MaxQuantity}}

InitSampler == InitCall(SamplerCalls)

CallRandomDFS ==
    /\ call.pc = "call"
    /\ call.fn = "random_d_fs"
    /\ Return(random_d_fs_with(call.args.rand_vectors, call.args.quantity))

SpecSampler == InitSampler /\ [][CallRandomDFS]_vars

\* ------------------------------------------------------------------------
\* Helper functions called on their own: the unitaries drawn by optimize_bs
\* ------------------------------------------------------------------------
MaxSide == 3
MaxIndex == 3

\* kronecker(mtx, mtx1)
kronecker(mtx, mtx1) ==
    LET ddd1 == Len(mtx)
        ddd2 == Len(mtx1)
    IN  [i \in 1 .. ddd1 * ddd2 |-> [j \in 1 .. ddd1 * ddd2 |->
            FMul(mtx[((i - 1) \div ddd2) + 1][((j - 1) \div ddd2) + 1],
                 mtx1[((i - 1) % ddd2) + 1][((j - 1) % ddd2) + 1])]]

\* random_unitary_bs(depth, quantity) for the drawn random_vector
random_unitary_bs(depth, quantity, random_vector) ==
    LET random_matrix == projector(normalize(random_vector))
        unitary_biseparable == phase_unitary(random_matrix)
    IN  kronecker(unitary_biseparable, identity(quantity))

\* random_unitary_bs_reverse(depth, quantity) for the drawn random_vector
random_unitary_bs_reverse(depth, quantity, random_vector) ==
    LET random_matrix == projector(normalize(random_vector))
        unitary_biseparable == phase_unitary(random_matrix)
    IN  kronecker(identity(quantity), unitary_biseparable)

\* the unitary of iteration index of optimize_bs
optimize_bs_unitary(index, depth, quantity, random_vector) ==
    IF index % 2 # 0
    THEN random_unitary_bs(depth, quantity, random_vector)
    ELSE random_unitary_bs_reverse(depth, quantity, random_vector)

\* vectors that get_random_haar_1d(depth) draws
HaarVectors1d(depth) ==
    {[i \in 1 .. depth |-> IF i = k THEN SCALE ELSE 0] : k \in 1 .. depth}
        \cup {[i \in 1 .. depth |-> SCALE]}

UnitaryCalls ==
    {Call("optimize_bs_unitary",
          [index |-> index, depth |-> depth, quantity |-> quantity,
           random_vector |-> random_vector]) :
        <<index, depth, quantity, random_vector>> \in
            UNION {(0 .. MaxIndex) \X {depth} \X (2 .. MaxSide) \X HaarVectors1d(depth) :
                      depth \in 2 .. MaxSide}}

InitUnitary == InitCall(UnitaryCalls)

CallOptimizeBSUnitary ==
    /\ call.pc = "call"
    /\ call.fn = "optimize_bs_unitary"
    /\ Return(optimize_bs_unitary(call.args.index, call.args.depth,
                                  call.args.quantity, call.args.random_vector))

SpecUnitary == InitUnitary /\ [][CallOptimizeBSUnitary]_vars

\* ------------------------------------------------------------------------
\* CSSFProject.__init__ and the paths derived from project_path
\* ------------------------------------------------------------------------
MaxPathLen == 3

PROJECT_FILE_NAME == "cssfproject.json"

\* Path.home() and Path.cwd() of the process
Home == <<"/", "home">>
Cwd == <<"/", "cwd">>

\* Path(text): the anchor "/" of an absolute text, then the kept components
Path(text) ==
    IF is_absolute(text)
    THEN <<"/">> \o path_parts(text, 1, "")
    ELSE path_parts(text, 1, "")

\* Path.expanduser()
expanduser(path) ==
    IF Len(path) > 0 /\ path[1] = "~" THEN Home \o Tail(path) ELSE path

\* ".." components removed together with the component before them
RECURSIVE collapse(_, _, _)
collapse(path, k, acc) ==
    IF k > Len(path)
    THEN acc
    ELSE IF path[k] = ".."
         THEN collapse(path, k + 1,
                       IF Len(acc) > 1 THEN SubSeq(acc, 1, Len(acc) - 1) ELSE acc)
         ELSE collapse(path, k + 1, Append(acc, path[k]))

\* Path.resolve(): absolute, without ".." (no symbolic links in the model)
resolve(path) ==
    LET absolute == IF Len(path) > 0 /\ path[1] = "/" THEN path ELSE Cwd \o path
    IN  collapse(absolute, 2, <<"/">>)

\* CSSFProject.project_file
project_file(project_path) ==
    IF Len(project_path) > 1 /\ project_path[Len(project_path)] = PROJECT_FILE_NAME
    THEN project_path
    ELSE Append(project_path, PROJECT_FILE_NAME)

\* CSSFProject.project_directory
project_directory(project_path) ==
    LET file == project_file(project_path)
    IN  SubSeq(file, 1, Len(file) - 1)

\* the object after __init__, or the exception that left it
Constructed(project_path) ==
    [raised |-> "",
     project_file |-> project_file(project_path),
     project_directory |-> project_directory(project_path)]

Raised(exception) ==
    [raised |-> exception, project_file |-> <<>>, project_directory |-> <<>>]

\* CSSFProject.__init__(meta, tasks, project_path); optimize is the -O
\* switch of the interpreter, which removes the assert statement
CSSFProject_init(project_path, optimize) ==
    IF project_path.type = "Path"
    THEN Constructed(resolve(expanduser(Path(project_path.text))))
    ELSE IF optimize
         \* str has no method expanduser
         THEN Raised("AttributeError")
         ELSE Raised("AssertionError")

PathTokens == {"/", "p", "..", "~", PROJECT_FILE_NAME}

\* "~" is a whole component (a user name after it would name another home)
tilde_alone(text) ==
    \A k \in DOMAIN text :
        text[k] = "~" =>
            /\ k = 1 \/ text[k - 1] = "/"
            /\ k = Len(text) \/ text[k + 1] = "/"

PathTexts ==
    {text \in UNION {[1 .. n -> PathTokens] : n \in 1 .. MaxPathLen} :
        tilde_alone(text)}

ProjectPaths == [type : {"str", "Path"}, text : PathTexts]

ConstructorCalls ==
    {Call("CSSFProject", [project_path |-> project_path, optimize |-> optimize]) :
        <<project_path, optimize>> \in ProjectPaths \X BOOLEAN}

InitConstructor == InitCall(ConstructorCalls)

CallCSSFProject ==
    /\ call.pc = "call"
    /\ call.fn = "CSSFProject"
    /\ Return(CSSFProject_init(call.args.project_path, call.args.optimize))

SpecConstructor == InitConstructor /\ [][CallCSSFProject]_vars

\* ------------------------------------------------------------------------
\* CSSFProject.select_tasks
\* ------------------------------------------------------------------------
MaxPatterns == 2

\* fnmatch.fnmatchcase(name, pattern) from position i of the name and j of
\* the pattern: "*" matches any run of characters, "?" one character, any
\* other character itself (character classes are not in the model)
RECURSIVE fnmatch_from(_, _, _, _)
fnmatch_from(name, i, pattern, j) ==
    IF j > Len(pattern)
    THEN i > Len(name)
    ELSE IF pattern[j] = "*"
         THEN \/ fnmatch_from(name, i, pattern, j + 1)
              \/ i <= Len(name) /\ fnmatch_from(name, i + 1, pattern, j)
         ELSE /\ i <= Len(name)
              /\ pattern[j] = "?" \/ pattern[j] = name[i]
              /\ fnmatch_from(name, i + 1, pattern, j + 1)

fnmatch(name, pattern) == fnmatch_from(name, 1, pattern, 1)

\* fnmatch.filter(self.tasks.keys(), pattern): the matching keys, in the
\* order of the dictionary
RECURSIVE filter_keys(_, _, _)
filter_keys(keys, pattern, k) ==
    IF k > Len(keys)
    THEN <<>>
    ELSE (IF fnmatch(keys[k], pattern) THEN <<keys[k]>> ELSE <<>>)
             \o filter_keys(keys, pattern, k + 1)

elements(seq) == {seq[k] : k \in DOMAIN seq}

\* the lists that iterating over a set can produce
iteration_orders(set) ==
    {order \in [1 .. Cardinality(set) -> set] :
        \A i, j \in DOMAIN order : i # j => order[i] # order[j]}

\* the loop over the patterns, with the keys found so far
RECURSIVE collect_keys(_, _, _, _)
collect_keys(tasks, patterns, k, keys) ==
    IF k > Len(patterns)
    THEN keys
    ELSE collect_keys(tasks, patterns, k + 1,
                      keys \cup elements(filter_keys(tasks, patterns[k], 1)))

\* the same loop collecting the keys in a list
RECURSIVE collect_key_list(_, _, _, _)
collect_key_list(tasks, patterns, k, keys) ==
    IF k > Len(patterns)
    THEN keys
    ELSE collect_key_list(tasks, patterns, k + 1,
                          keys \o filter_keys(tasks, patterns[k], 1))

\* a selection that keeps a key once for every pattern it matches
select_tasks_key_list(tasks, patterns) ==
    IF ~patterns.given
    THEN {tasks}
    ELSE {collect_key_list(tasks, patterns.list, 1, <<>>)}

\* select_tasks(patterns): the lists it can return; tasks is the sequence of
\* the keys of self.tasks, a task stands for its key
select_tasks(tasks, patterns) ==
    IF ~patterns.given
    THEN {tasks}
    ELSE iteration_orders(collect_keys(tasks, patterns.list, 1, {}))

\* keys of the tasks of a project
SelectNames == {<<"a">>, <<"b">>, <<"a", "b">>}

SelectPatterns == {<<"a">>, <<"b">>, <<"*">>, <<"?">>, <<"a", "*">>}

SelectTaskKeys ==
    {keys \in UNION {[1 .. n -> SelectNames] : n \in 1 .. MaxTasks} :
        \A i, j \in DOMAIN keys : i # j => keys[i] # keys[j]}

\* patterns: None, or a list of patterns
PatternLists ==
    {[given |-> FALSE, list |-> <<>>]} \cup
    {[given |-> TRUE, list |-> list] :
        list \in UNION {[1 .. n -> SelectPatterns] : n \in 0 .. MaxPatterns}}

SelectCalls ==
    {Call("select_tasks", [tasks |-> tasks, patterns |-> patterns]) :
        <<tasks, patterns>> \in SelectTaskKeys \X PatternLists}

InitSelect == InitCall(SelectCalls)

CallSelectTasks ==
    /\ call.pc = "call"
    /\ call.fn = "select_tasks"
    /\ \E task_list \in select_tasks(call.args.tasks, call.args.patterns) :
          Return(task_list)

SpecSelect == InitSelect /\ [][CallSelectTasks]_vars

\* ------------------------------------------------------------------------
\* Properties
\* ------------------------------------------------------------------------
Abs(x) == IF x < 0 THEN 0 - x ELSE x

last_residual == corrections[Len(corrections)][3]

\* x / SCALE < 1 / ThresholdDenominator, for x >= 0
below_threshold(x) == x <= (SCALE - 1) \div ThresholdDenominator

\* a candidate was sampled: one pass of the loop body of run_epoch ran
sampled_step == iteration_index' = iteration_index + 1

\* the generator enters run_epoch for a new epoch
epoch_started == pc # "run_epoch" /\ pc' = "run_epoch"

files_match_engine ==
    /\ {STATE_FILE, CORRECTIONS_FILE} \subseteq DOMAIN output_directory
    /\ output_directory[STATE_FILE] = intermediate
    /\ output_directory[CORRECTIONS_FILE] = corrections

\* total = depth ^ n for some n >= 1
is_power_of(t, depth) ==
    \E n \in 1 .. t : depth <= t /\ n <= IntLog(t, depth) /\ Pow(depth, n) = t

\* C1: in any run, with or without symmetries or projection, the residual
\* values of the correction list never increase from one record to the next
\* (up to Eps units of rounding).
C1_ResidualNeverIncreases ==
    \A k \in 2 .. Len(corrections) :
        corrections[k][3] <= corrections[k - 1][3] + Eps

\* C2: the k-th record of a run has ordinal k; the record made in epoch e at
\* iteration i of an epoch of I iterations has iteration index e * I + i + 1;
\* the iteration index never decreases along the list.
C2_OrdinalAndIterationIndex ==
    /\ [](\A k \in 1 .. Len(corrections) :
             /\ corrections[k][2] = k
             /\ k > 1 => corrections[k - 1][1] <= corrections[k][1])
    /\ [][Len(corrections') = Len(corrections) + 1 =>
             corrections'[Len(corrections')][1] =
                 epoch_index * config.iters_per_epoch + iteration_index + 1]_vars

\* C2 witness: a second record made in a later epoch than the first
C2_Witness ==
    /\ Len(corrections) >= 2
    /\ epoch_index >= 1
    /\ corrections[1][1] <= config.iters_per_epoch
    /\ corrections[2][1] > config.iters_per_epoch

\* C3: after every accepted correction rho1 has trace 1 (up to Eps units of
\* rounding), also when symmetries or a projection are configured.
C3_TraceOneAfterCorrection ==
    [][Len(corrections') > Len(corrections) =>
          Abs(trace(intermediate') - SCALE) <= Eps]_vars

\* C4: with max_corrections = -1 the cap is disabled: the run ends only after
\* all max_epochs epochs have been executed.
C4_MinusOneDisablesCap ==
    (pc = "done" /\ config.max_corrections = 0 - 1) =>
        epoch_index + 1 = config.max_epochs

C6_NoSamplingBelowThreshold ==
    [][(Len(corrections) > 0 /\ below_threshold(last_residual)) =>
          ~sampled_step]_vars

\* C7: at every epoch boundary, the last epoch and the epoch that reached the
\* cap included, once the driver has handled the yielded epoch and at least
\* one correction exists, state.mtx holds the current rho1 and
\* corrections.json holds the whole correction list.
C7_FlushedAtEpochBoundary ==
    (pc \in {"next_loop", "next_final", "done"} /\ Len(corrections) >= 1) =>
        files_match_engine

\* C7 witness: the driver has handled the epoch that reached the cap, after an
\* earlier epoch, and the files hold the engine's state
C7_Witness ==
    /\ pc = "next_final"
    /\ epoch_index >= 1
    /\ config.max_corrections >= 1
    /\ Len(corrections) >= config.max_corrections
    /\ files_match_engine

\* C8: every completed run leaves state.mtx with the final rho1 and
\* corrections.json with the correction list in the output directory, whatever
\* the number of corrections.
C8_CompletedRunLeavesFiles ==
    pc = "done" => files_match_engine

\* C9: a newly constructed engine starts from the rho1 persisted by an earlier
\* run when there is one.
C9_ResumesFromPersistedState ==
    (pc = "start" /\ run_number > 1 /\ STATE_FILE \in DOMAIN output_directory) =>
        intermediate = output_directory[STATE_FILE]

\* C10: the FSnQd detector returns (d, n) with d ^ n equal to the total
\* dimension, d the smallest prime for which this is possible.
C10_FSnQdDetection ==
    (pc = "detected" /\ config.mode = "FSnQd"
        /\ \E i \in 1 .. Len(PRIMES) : is_power_of(total, PRIMES[i])) =>
        /\ dimensions.error = ""
        /\ dimensions.quantity >= 1
        /\ Pow(dimensions.depth, dimensions.quantity) = total
        /\ \A i \in 1 .. Len(PRIMES) :
               PRIMES[i] < dimensions.depth => ~is_power_of(total, PRIMES[i])

\* d is a prime of the table that divides t
divides_from_table(t, d) ==
    \E i \in 1 .. Len(PRIMES) : PRIMES[i] = d /\ t % d = 0

has_square_root(t) == \E r \in 1 .. t : r * r = t

\* C11: for mode SBiPa the detector returns (sqrt(D), sqrt(D)) when D is a
\* perfect square, otherwise (d, D / d) with d the smallest prime dividing D;
\* every returned pair satisfies d * n = D.
C11_SBiPaDetection ==
    (pc = "detected" /\ config.mode = "SBiPa") =>
        /\ has_square_root(total) =>
               /\ dimensions.error = ""
               /\ dimensions.depth = dimensions.quantity
               /\ dimensions.depth * dimensions.depth = total
        /\ (~has_square_root(total)
               /\ \E d \in 2 .. total : divides_from_table(total, d)) =>
               /\ dimensions.error = ""
               /\ divides_from_table(total, dimensions.depth)
               /\ \A d \in 2 .. total :
                      divides_from_table(total, d) => dimensions.depth <= d
               /\ dimensions.quantity * dimensions.depth = total
        /\ dimensions.error = "" =>
               dimensions.depth * dimensions.quantity = total

\* C11 witness: D = 12 detected as (2, 6)
C11_Witness ==
    /\ pc = "detected"
    /\ config.mode = "SBiPa"
    /\ total = 12
    /\ dimensions = Dimensions(2, 6)

\* the total has a factorization valid for the mode
valid_factorization(mode, t) ==
    IF mode = "FSnQd"
    THEN t = 1 \/ \E i \in 1 .. Len(PRIMES) : is_power_of(t, PRIMES[i])
    ELSE has_square_root(t) \/ \E d \in 2 .. t : divides_from_table(t, d)

\* C12: when the total dimension has no factorization valid for the mode,
\* detection fails with the undefined-system-size error.
C12_UndefinedSizeFails ==
    (pc = "detected" /\ ~valid_factorization(config.mode, total)) =>
        dimensions = UndefinedSystemSizeError

multipartite == config.mode \in {"G3PaE3qD", "G4PaE3qD"}

\* C13: a task of a multipartite mode (G3PaE3qD, G4PaE3qD) can be run: it is
\* never ended by an error, neither when the engine is created nor when an
\* iteration samples its candidate.
C13_MultipartiteTaskRuns ==
    multipartite => pc # "failed"

\* the run command loaded the project and selected its tasks
run_selected == project.command = "run" /\ load_error(project) = ""

some_task_failed == \E i \in DOMAIN task_run : task_run[i].status = "failed"

\* C14: when the run command has ended and one selected task failed
\* fatally, every other selected task has run to completion, in sequential
\* execution and in worker-pool execution
C14_SiblingsRunToCompletion ==
    (run_selected /\ driver = "exited" /\ some_task_failed)
        => \A i \in DOMAIN task_run : task_run[i].status \in {"done", "failed"}

\* C15: the run command never ends with exit code 0 after a task failed
C15_FailureSurfaced ==
    (run_selected /\ driver = "exited" /\ some_task_failed) => exit_code # 0

\* C16: during the run command at most max_parallel tasks execute at the
\* same time when max_parallel > 0; with force_sequential at most one task
\* executes, in the main process, and only after every earlier task ended
C16_ConcurrencyBounded ==
    project.command = "run" =>
        /\ project.max_parallel > 0 => running_count <= project.max_parallel
        /\ project.force_sequential =>
              /\ running_count <= 1
              /\ \A i \in DOMAIN task_run :
                    task_run[i].status # "pending" =>
                        /\ task_run[i].process = "main"
                        /\ \A j \in DOMAIN task_run : j < i => ended(j)

\* the cap is reached in the pool: as many tasks execute as max_parallel
\* allows, fewer than there are processors, and another task waits
C16_Witness ==
    /\ project.command = "run"
    /\ ~project.force_sequential
    /\ project.max_parallel > 0
    /\ project.max_parallel < project.cpu_count
    /\ running_count = project.max_parallel
    /\ \E i \in DOMAIN task_run : task_run[i].status = "queued"

\* C17: two distinct tasks of a project never write the same file: every
\* state.mtx and corrections.json path is written by one task only, under
\* any interleaving of the running tasks
C17_TasksOwnTheirFiles ==
    \A path \in DOMAIN files : Cardinality(files[path]) <= 1

\* C18: get_state() and get_corrections() return copies: a write of the
\* caller into a returned array or list leaves the engine's rho1, its
\* correction list and the correction count as they were, and with them
\* every later accessor result and epoch
C18_AccessorsReturnCopies ==
    [][(MutateState \/ MutateCorrections) =>
            /\ UNCHANGED engine
            /\ Len(corrections') = Len(corrections)
            /\ get_state' = Returned(intermediate, FALSE)
            /\ get_corrections' = Returned(corrections, FALSE)]_vars

\* the caller has changed both returned objects while the engine holds a
\* correction
C18_Witness ==
    /\ pc \in {"next_loop", "next_final"}
    /\ Len(corrections) >= 1
    /\ returned_state.value \notin {None, intermediate}
    /\ returned_corrections.value # corrections

\* the error family the ended command ran into, "" when none
error_family ==
    IF project.command = "report" /\ project.report_types = 0 THEN ""
    ELSE IF load_error(project) # "" THEN load_error(project)
    ELSE IF /\ project.command = "report"
            /\ Cardinality(fnmatch_filter(project, project.pattern)) > 1
         THEN "AmbiguousTaskKeyError"
    ELSE ""

\* the ended command did what it was asked to do
command_succeeded ==
    IF project.command = "run"
    THEN /\ load_error(project) = ""
         /\ \A i \in DOMAIN task_run : task_run[i].status = "done"
    ELSE \/ project.report_types = 0
         \/ /\ load_error(project) = ""
            /\ Cardinality(fnmatch_filter(project, project.pattern)) = 1

\* C19: the run and report commands end with exit code 0 only on success;
\* every error family ends with a non-zero code, and with a code that no
\* other error family of the command ends with
C19_ExitCodes ==
    driver = "exited" =>
        /\ exit_code = 0 => command_succeeded
        /\ error_family # "" =>
              /\ exit_code # 0
              /\ \A other \in ErrorFamilies \ {error_family} :
                    exit_code # family_exit_code(project.command, other)

\* overlap of a trial of the call with the residual
trial_overlap(unitary) ==
    product(rotate(optimizer.new_state, unitary), optimizer.visibility_state)

\* in no iteration the trial with U or with its adjoint has an overlap
\* greater than the best overlap so far, which then stays the overlap of
\* the given candidate
no_trial_improves ==
    \A k \in DOMAIN optimizer.unitaries :
        \A unitary \in {optimizer.unitaries[k], conjT(optimizer.unitaries[k])} :
            trial_overlap(unitary)
                <= product(optimizer.new_state, optimizer.visibility_state)

\* C20: when no optimizer iteration finds a trial, with U or its adjoint,
\* whose overlap with the residual exceeds the best so far, optimize_d_fs
\* and optimize_bs return the candidate they were given, unchanged
C20_NoImprovementReturnsCandidate ==
    (optimizer.pc = "returned" /\ no_trial_improves)
        => optimizer.result = optimizer.new_state

\* the best overlap recorded during the climb of the call: product_2_3 of
\* optimize_d_fs, pp1 of optimize_bs, when the for loop has ended
best_overlap ==
    IF optimizer.fn = "optimize_d_fs"
    THEN d_fs_for(optimizer.new_state, optimizer.visibility_state,
                  optimizer.unitaries, 1,
                  product(optimizer.new_state, optimizer.visibility_state),
                  rotate(optimizer.new_state, optimizer.first)).best
    ELSE bs_for(optimizer.new_state, optimizer.visibility_state,
                optimizer.unitaries, 1,
                product(optimizer.new_state, optimizer.visibility_state),
                optimizer.new_state).best

\* C21: the state returned by the mode optimizer has an overlap with the
\* residual that is at least the overlap of the candidate and equal to the
\* best overlap recorded during the climb
C21_ReturnsBestState ==
    optimizer.pc = "returned" =>
        /\ product(optimizer.result, optimizer.visibility_state)
              >= product(optimizer.new_state, optimizer.visibility_state)
        /\ product(optimizer.result, optimizer.visibility_state) = best_overlap

\* the iteration did not accept its candidate: no correction was appended
candidate_discarded == sampled_step /\ Len(corrections') = Len(corrections)

\* C22: an iteration of run_epoch that does not accept its candidate leaves
\* rho1, the residual, the caches aa4, aa6, dd1 and the correction list as
\* they were, also when symmetries or a projection are configured
C22_DiscardChangesNothing ==
    [][candidate_discarded =>
          UNCHANGED <<intermediate, visibility_reduced, aa4, aa6, dd1,
                      corrections>>]_vars

\* the engine exists and is at an iteration boundary
engine_built == pc \notin {"create", "failed", "detect", "detected", "project",
                           "optimize", "helper"}

\* the cached values are those of the current rho1; dd1 is kept as
\* aa4 / 2 - aa6 and may differ from <rho1, R> by the rounding allowance
caches_agree ==
    /\ visibility_reduced = MSub(visibility, intermediate)
    /\ aa4 = 2 * product(visibility, intermediate)
    /\ aa6 = product(intermediate, intermediate)
    /\ Abs(dd1 - product(intermediate, visibility_reduced)) <= Eps

\* C23: at every iteration boundary of the engine, after construction with
\* its symmetries and projection and after every accepted or discarded
\* candidate, R, aa4, aa6 and dd1 agree with the current rho1
C23_CachesAgreeWithState == engine_built => caches_agree

\* the iteration accepted its candidate: a correction was appended
candidate_accepted == sampled_step /\ Len(corrections') = Len(corrections) + 1

\* C24: with symmetries configured, an iteration of run_epoch applies the
\* symmetry group to rho1 only when it accepts its candidate and the
\* correction count, before or after the update, is a multiple of 50
C24_SymmetriesEveryFiftieth ==
    [][(sampled_step /\ symmetries_applied') =>
          /\ candidate_accepted
          /\ \/ Len(corrections) % 50 = 0
             \/ Len(corrections') % 50 = 0]_vars

\* tensor product of the normalized vectors in the order given by indices
RECURSIVE tensor_of(_, _, _)
tensor_of(rand_vectors, indices, k) ==
    IF k = 1
    THEN normalize(rand_vectors[indices[1]])
    ELSE outer_flatten(tensor_of(rand_vectors, indices, k - 1),
                       normalize(rand_vectors[indices[k]]))

\* the orders in which each of the n drawn vectors is one tensor factor
FactorOrders(n) ==
    {f \in [1 .. n -> 1 .. n] : \A i, j \in 1 .. n : i # j => f[i] # f[j]}

\* C25: random_d_fs(d, n) returns the projector of the tensor product of
\* the n drawn unit vectors, each of them used as exactly one factor
C25_EveryVectorOneFactor ==
    (call.fn = "random_d_fs" /\ call.pc = "returned") =>
        \E indices \in FactorOrders(call.args.quantity) :
            call.result = projector(tensor_of(call.args.rand_vectors, indices,
                                            call.args.quantity))

\* m is U (x) I_d2 for a d1 x d1 matrix U
acts_on_first(m, d1, d2) ==
    /\ Len(m) = d1 * d2
    /\ \A i, j \in 1 .. d1 * d2 :
          m[i][j] = IF (i - 1) % d2 = (j - 1) % d2
                    THEN m[((i - 1) \div d2) * d2 + 1][((j - 1) \div d2) * d2 + 1]
                    ELSE 0

\* m is I_d1 (x) U for a d2 x d2 matrix U
acts_on_second(m, d1, d2) ==
    /\ Len(m) = d1 * d2
    /\ \A i, j \in 1 .. d1 * d2 :
          m[i][j] = IF (i - 1) \div d2 = (j - 1) \div d2
                    THEN m[((i - 1) % d2) + 1][((j - 1) % d2) + 1]
                    ELSE 0

\* C26: for SBiPa with subsystem dimensions (d1, d2) = (depth, quantity),
\* also when they differ, the unitary of an optimizer iteration acts on one
\* side only, on the first side in odd iterations and on the second side
\* in even ones
C26_UnitaryActsOnOneSide ==
    (call.fn = "optimize_bs_unitary" /\ call.pc = "returned") =>
        IF call.args.index % 2 # 0
        THEN acts_on_first(call.result, call.args.depth, call.args.quantity)
        ELSE acts_on_second(call.result, call.args.depth, call.args.quantity)

\* the loop of Gilbert.run has ended (break or range exhausted)
run_stopped == pc \in {"yield_final", "next_final", "done"}

\* the count lies between the cap and the cap plus one epoch less one
within_cap_window ==
    /\ config.max_corrections <= Len(corrections)
    /\ Len(corrections) <= config.max_corrections - 1 + config.iters_per_epoch

\* an iteration keeps the recorded corrections and adds at most one
appends_at_most_one ==
    /\ Len(corrections') <= Len(corrections) + 1
    /\ SubSeq(corrections', 1, Len(corrections)) = corrections

\* the break on the cap
stops_on_cap ==
    /\ pc = "run_epoch"
    /\ pc' = "yield_final"
    /\ config.max_corrections >= 1

\* C27: an iteration of run_epoch appends at most one correction; when
\* Gilbert.run leaves its loop by the break on the cap (max_corrections >= 1)
\* the count c satisfies max_corrections <= c <= max_corrections - 1 + I, and
\* that is the final count of every run that ended with the cap reached
C27_CapOvershootBounded ==
    /\ [][(sampled_step => appends_at_most_one)
           /\ (stops_on_cap => within_cap_window')]_vars
    /\ [](( /\ run_stopped
            /\ config.max_corrections >= 1
            /\ cap_reached(Len(corrections), config.max_corrections)) =>
                within_cap_window)

\* a run stopped by the cap with more corrections than the cap
C27_Witness ==
    /\ pc = "yield_final"
    /\ config.max_corrections >= 1
    /\ Len(corrections) > config.max_corrections
    /\ Len(corrections) = config.max_corrections - 1 + config.iters_per_epoch

\* Gilbert.run has returned after the break on the cap
stopped_on_cap == cap_reached(Len(corrections), config.max_corrections)

\* the number of values yielded so far, for the position of the generator
yields_match_epochs ==
    /\ pc = "run_epoch" => generator.yields = generator.epochs - 1
    /\ pc \in {"yield_loop", "next_loop"} => generator.yields = generator.epochs
    /\ (run_stopped /\ stopped_on_cap) => generator.yields = generator.epochs
    /\ (run_stopped /\ ~stopped_on_cap) =>
          /\ generator.epochs = config.max_epochs
          /\ generator.yields = config.max_epochs + 1

\* an epoch starts only when the driver asks for the next value, and never
\* after the last yield
epoch_on_request ==
    generator'.epochs # generator.epochs =>
        /\ pc \in {"start", "next_loop"}
        /\ pc' = "run_epoch"
        /\ generator'.epochs = generator.epochs + 1

\* the value yielded after the exhausted range is the last epoch index
\* again, with the engine as it was at the yield before
last_yield_repeats ==
    (pc = "next_loop" /\ pc' = "yield_final") =>
        /\ epoch_index' = epoch_index
        /\ UNCHANGED engine

\* at the yield after the exhausted range the driver writes again what the
\* files already hold
persists_same_state_again ==
    (pc = "yield_final" /\ ~stopped_on_cap) => flush(output_directory) = output_directory

\* C28: Gilbert.run yields after every executed epoch and before the next
\* one starts, runs no epoch after its last yield and none unless the driver
\* asks for the next value; it has yielded as many times as epochs were
\* executed when it stopped on the cap and max_epochs + 1 times otherwise,
\* the last value and the persisted state being those of the yield before
C28_YieldAfterEveryEpoch ==
    /\ [](yields_match_epochs /\ persists_same_state_again)
    /\ [][epoch_on_request /\ last_yield_repeats]_vars

\* a run that exhausted its epochs with corrections found: the driver was
\* handed max_epochs + 1 values for max_epochs >= 2 epochs
C28_Witness ==
    /\ pc = "done"
    /\ ~stopped_on_cap
    /\ Len(corrections) > 0
    /\ config.max_epochs >= 2
    /\ generator.yields = config.max_epochs + 1

\* the same project_path given as a Path
as_path(project_path) == [project_path EXCEPT !.type = "Path"]

\* C29: constructing a CSSFProject with project_path given as a str succeeds
\* and yields the same project_file and project_directory as constructing it
\* with the equivalent Path; no str or Path makes the constructor fail
C29_StrPathAccepted ==
    (call.fn = "CSSFProject" /\ call.pc = "returned") =>
        /\ call.result.raised = ""
        /\ call.result = CSSFProject_init(as_path(call.args.project_path),
                                          call.args.optimize)

\* the patterns of the list that the key matches
matching_patterns(key, patterns) ==
    {k \in DOMAIN patterns : fnmatch(key, patterns[k])}

\* C30: select_tasks(None) returns every task of the project;
\* select_tasks(patterns) returns exactly the tasks whose name matches at
\* least one pattern, each once even when it matches several patterns
C30_EveryMatchingTaskOnce ==
    (call.fn = "select_tasks" /\ call.pc = "returned") =>
        IF ~call.args.patterns.given
        THEN call.result = call.args.tasks
        ELSE /\ \A i, j \in DOMAIN call.result :
                  i # j => call.result[i] # call.result[j]
             /\ elements(call.result) =
                  {key \in elements(call.args.tasks) :
                      matching_patterns(key, call.args.patterns.list) # {}}

\* a selection with a task that matches two patterns and a task that
\* matches none
C30_Witness ==
    /\ call.fn = "select_tasks"
    /\ call.pc = "returned"
    /\ call.args.patterns.given
    /\ \E key \in elements(call.result) :
          Cardinality(matching_patterns(key, call.args.patterns.list)) >= 2
    /\ elements(call.result) # elements(call.args.tasks)

====
